---------------------------- MODULE Spec2Model ----------------------------
(***************************************************************************)
(* Black-Scholes-Merton option calculators of datacuentas-lab/Opciones:    *)
(* calculo_opciones_BS_META.py and calculo_opciones_BS_UNH.py.             *)
(*                                                                         *)
(* Numbers are fixed-point integers:                                       *)
(*   prices, spot, strike   half cents          (4.00 -> 800, 0.01 -> 2)   *)
(*   implied volatility     hundredths          (0.35 -> 35, 5 -> 500)     *)
(*   yield quotes (Close)   tenths of a percent (4.5 % -> 45)              *)
(*   rates                  1e-4                (0.045 -> 450)             *)
(*   time                   hours; a date is midnight of its day           *)
(* A pandas/float value is a record: a number, NaN, or None (a key the row *)
(* does not have, as dict.get returns it).                                 *)
(***************************************************************************)
EXTENDS Integers, Sequences, FiniteSets, TLC

VARIABLES
    call,       \* the last direct call of one of the pure functions
    script,     \* which script runs: "META" or "UNH"
    pc,         \* position of the run inside main()
    now,        \* datetime.now() of the run, in hours since day 0, 00:00
    option_data,\* what get_option_data returned (a record, or None)
    all_calls,  \* rows accumulated by get_option_data
    all_puts,
    todo,       \* work list of the loop the run is in
    rate_calls, \* the calls of get_risk_free_rate_maturity: caller, date, argument
    report,     \* the comparison rows printed so far
    error       \* the uncaught exception that ended the run, or "none"

vars == << call, script, pc, now, option_data, all_calls, all_puts, todo,
           rate_calls, report, error >>

runVars == << script, pc, now, option_data, all_calls, all_puts, todo,
              rate_calls, report, error >>

---------------------------------------------------------------------------
(* Bounds of the model                                                     *)

MaxQuote == 3       \* quote fields range over -1 .. MaxQuote cents
MaxExp == 2         \* expiration dates listed by the provider
MaxRows == 1        \* rows per side (calls, puts) of one option chain

---------------------------------------------------------------------------
(* Values                                                                  *)

Num(n) == [k |-> "num", v |-> n]
NaN == [k |-> "nan", v |-> 0]
None == [k |-> "none", v |-> 0]

\* pd.isna(x): True for NaN and for None
isna(x) == x.k # "num"

\* Python comparisons: every comparison with NaN is False
gt0(x) == x.k = "num" /\ x.v > 0
le(x, y) == x.k = "num" /\ y.k = "num" /\ x.v <= y.v
ge(x, y) == x.k = "num" /\ y.k = "num" /\ x.v >= y.v

Max(a, b) == IF a >= b THEN a ELSE b

Cents(c) == 2 * c

---------------------------------------------------------------------------
(* validate_implied_volatility                                             *)

IV_DEFAULT_META == 35
IV_CEILING_META == 60
IV_DEFAULT_UNH == 30
IV_CEILING_UNH == 50
IV_LIMIT == 500

iv_default(s) == IF s = "META" THEN IV_DEFAULT_META ELSE IV_DEFAULT_UNH

iv_ceiling(s) == IF s = "META" THEN IV_CEILING_META ELSE IV_CEILING_UNH

\* mutant: a reading above the limit is rescaled by ten instead of clamped
validate_implied_volatility_rescale(s, iv) ==
    IF isna(iv) \/ iv.v <= 0 THEN Num(iv_default(s))
    ELSE IF iv.v > IV_LIMIT THEN Num(iv.v \div 10)
    ELSE iv

\* mutant: zero passes the first test ("< 0" for "<= 0")
validate_implied_volatility_zero(s, iv) ==
    IF isna(iv) \/ iv.v < 0 THEN Num(iv_default(s))
    ELSE IF iv.v > IV_LIMIT THEN Num(iv_ceiling(s))
    ELSE iv

validate_implied_volatility(s, iv) ==
    IF isna(iv) \/ iv.v <= 0 THEN Num(iv_default(s))
    ELSE IF iv.v > IV_LIMIT THEN Num(iv_ceiling(s))
    ELSE iv

---------------------------------------------------------------------------
(* calculate_effective_price (META script only)                            *)

MIN_PRICE == 2      \* 0.01, the one-cent floor

\* option_row.get('ask', option_row['lastPrice'] * 2): the default is used
\* only when the row has no 'ask' key; a NaN ask is returned as it is
ask_or_default(row) ==
    IF row.ask.k = "none" THEN Num(row.lastPrice.v * 2) ELSE row.ask

midpoint(row) == (row.bid.v + row.ask.v) \div 2

intrinsic(S, K, option_type) ==
    IF option_type = "call" THEN Max(S - K, 0) ELSE Max(K - S, 0)

\* mutant: the floor of the fallback is dropped
calculate_effective_price_nofloor(row) ==
    IF ~isna(row.lastPrice) /\ row.lastPrice.v > 0
       /\ le(row.lastPrice, ask_or_default(row))
    THEN row.lastPrice.v
    ELSE IF ~isna(row.bid) /\ ~isna(row.ask) /\ row.bid.v > 0 /\ row.ask.v > 0
            /\ row.ask.v >= row.bid.v
            /\ midpoint(row) > 0 /\ midpoint(row) <= row.ask.v
    THEN midpoint(row)
    ELSE IF ~isna(row.bid) /\ row.bid.v > 0 THEN row.bid.v
    ELSE IF ~isna(row.ask) /\ row.ask.v > 0 THEN row.ask.v
    ELSE intrinsic(row.underlying_price, row.strike, row.option_type)

\* mutant: priorities 3 and 4 swapped (ask before bid)
calculate_effective_price_askfirst(row) ==
    IF ~isna(row.lastPrice) /\ row.lastPrice.v > 0
       /\ le(row.lastPrice, ask_or_default(row))
    THEN row.lastPrice.v
    ELSE IF ~isna(row.bid) /\ ~isna(row.ask) /\ row.bid.v > 0 /\ row.ask.v > 0
            /\ row.ask.v >= row.bid.v
            /\ midpoint(row) > 0 /\ midpoint(row) <= row.ask.v
    THEN midpoint(row)
    ELSE IF ~isna(row.ask) /\ row.ask.v > 0 THEN row.ask.v
    ELSE IF ~isna(row.bid) /\ row.bid.v > 0 THEN row.bid.v
    ELSE Max(intrinsic(row.underlying_price, row.strike, row.option_type),
             MIN_PRICE)

\* mutant: lastPrice is accepted without comparing it with the ask
calculate_effective_price_noceiling(row) ==
    IF ~isna(row.lastPrice) /\ row.lastPrice.v > 0
    THEN row.lastPrice.v
    ELSE IF ~isna(row.bid) /\ ~isna(row.ask) /\ row.bid.v > 0 /\ row.ask.v > 0
            /\ row.ask.v >= row.bid.v
            /\ midpoint(row) > 0 /\ midpoint(row) <= row.ask.v
    THEN midpoint(row)
    ELSE IF ~isna(row.bid) /\ row.bid.v > 0 THEN row.bid.v
    ELSE IF ~isna(row.ask) /\ row.ask.v > 0 THEN row.ask.v
    ELSE Max(intrinsic(row.underlying_price, row.strike, row.option_type),
             MIN_PRICE)

calculate_effective_price(row) ==
    IF ~isna(row.lastPrice) /\ row.lastPrice.v > 0
       /\ le(row.lastPrice, ask_or_default(row))
    THEN row.lastPrice.v
    ELSE IF ~isna(row.bid) /\ ~isna(row.ask) /\ row.bid.v > 0 /\ row.ask.v > 0
            /\ row.ask.v >= row.bid.v
            /\ midpoint(row) > 0 /\ midpoint(row) <= row.ask.v
    THEN midpoint(row)
    ELSE IF ~isna(row.bid) /\ row.bid.v > 0 THEN row.bid.v
    ELSE IF ~isna(row.ask) /\ row.ask.v > 0 THEN row.ask.v
    ELSE Max(intrinsic(row.underlying_price, row.strike, row.option_type),
             MIN_PRICE)

---------------------------------------------------------------------------
(* get_risk_free_rate_maturity                                             *)

\* the dict treasury_tickers, in insertion order
treasury_tickers ==
    << [min_days |-> 0,   max_days |-> 30,   tkr |-> "^IRX"],
       [min_days |-> 31,  max_days |-> 90,   tkr |-> "^IRX"],
       [min_days |-> 91,  max_days |-> 180,  tkr |-> "^FVX"],
       [min_days |-> 181, max_days |-> 365,  tkr |-> "^FVX"],
       [min_days |-> 366, max_days |-> 730,  tkr |-> "^TNX"],
       [min_days |-> 731, max_days |-> 9999, tkr |-> "^TNX"] >>

tier_matches(i, maturity_days) ==
    /\ treasury_tickers[i].min_days <= maturity_days
    /\ maturity_days <= treasury_tickers[i].max_days

\* the for loop with its break: the first matching entry, from entry i on;
\* "^IRX", the value set before the loop, when none matches
RECURSIVE select_ticker(_, _)
select_ticker(i, maturity_days) ==
    IF i > Len(treasury_tickers) THEN "^IRX"
    ELSE IF tier_matches(i, maturity_days) THEN treasury_tickers[i].tkr
    ELSE select_ticker(i + 1, maturity_days)

\* mutant: strict comparisons in the fallback curve
default_rate_strict(maturity_days) ==
    IF maturity_days < 30 THEN 450
    ELSE IF maturity_days < 90 THEN 470
    ELSE IF maturity_days < 180 THEN 480
    ELSE IF maturity_days < 365 THEN 490
    ELSE 500

default_rate(maturity_days) ==
    IF maturity_days <= 30 THEN 450
    ELSE IF maturity_days <= 90 THEN 470
    ELSE IF maturity_days <= 180 THEN 480
    ELSE IF maturity_days <= 365 THEN 490
    ELSE 500

\* hist['Close'].iloc[-1] / 100: a percentage (in tenths) to a decimal (1e-4)
percent_to_decimal(close) == (close * 1000) \div 100

\* hist is the outcome of yf.Ticker(ticker).history(period="1d"):
\* [k |-> "raise"], [k |-> "empty"] or [k |-> "ok", close |-> c]
get_risk_free_rate_maturity(maturity_days, hist) ==
    LET ticker == select_ticker(1, maturity_days)
    IN  IF hist.k = "ok"
        THEN [raised |-> FALSE, ticker |-> ticker, source |-> "live",
              rate |-> percent_to_decimal(hist.close)]
        ELSE [raised |-> FALSE, ticker |-> ticker, source |-> "default",
              rate |-> default_rate(maturity_days)]

---------------------------------------------------------------------------
(* black_scholes_with_dividends                                            *)
(* T is in days (the callers pass T_days / 365.0). For T > 0 the result is *)
(* the closed form, carried as the arguments it is evaluated at.           *)

\* mutant: "T < 0" for "T <= 0"
black_scholes_with_dividends_strict(s, S, K, T, r, sigma, q, option_type) ==
    IF T < 0
    THEN [branch |-> "intrinsic",
          price |-> IF option_type = "call" THEN Max(S - K, 0)
                    ELSE Max(K - S, 0)]
    ELSE [branch |-> "formula", S |-> S, K |-> K, T |-> T, r |-> r,
          sigma |-> validate_implied_volatility(s, sigma).v, q |-> q,
          option_type |-> option_type]

\* mutant: sigma is used as passed, without validate_implied_volatility
black_scholes_with_dividends_rawsigma(s, S, K, T, r, sigma, q, option_type) ==
    IF T <= 0
    THEN [branch |-> "intrinsic",
          price |-> IF option_type = "call" THEN Max(S - K, 0)
                    ELSE Max(K - S, 0)]
    ELSE [branch |-> "formula", S |-> S, K |-> K, T |-> T, r |-> r,
          sigma |-> sigma.v, q |-> q, option_type |-> option_type]

black_scholes_with_dividends(s, S, K, T, r, sigma, q, option_type) ==
    IF T <= 0
    THEN [branch |-> "intrinsic",
          price |-> IF option_type = "call" THEN Max(S - K, 0)
                    ELSE Max(K - S, 0)]
    ELSE [branch |-> "formula", S |-> S, K |-> K, T |-> T, r |-> r,
          sigma |-> validate_implied_volatility(s, sigma).v, q |-> q,
          option_type |-> option_type]

---------------------------------------------------------------------------
(* Direct calls of the pure functions                                      *)

Scripts == {"META", "UNH"}

OptionTypes == {"call", "put"}

QuoteValues == {None, NaN} \cup {Num(Cents(c)) : c \in -1 .. MaxQuote}

PriceValues == {Cents(c) : c \in 1 .. MaxQuote}

IVValues ==
    {None, NaN} \cup
    {Num(v) : v \in {-10, 0, 1, 30, 35, 50, 60, 61, 300, 500, 501, 750, 7500}}

DayValues ==
    {-1, 0, 1, 30, 31, 90, 91, 180, 181, 365, 366, 730, 731, 9999, 10000}

HistOutcomes ==
    {[k |-> "raise"], [k |-> "empty"]} \cup
    {[k |-> "ok", close |-> c] : c \in {0, 45, 52}}

\* the outcomes of a yield-quote retrieval during a run
RunHistOutcomes == {[k |-> "raise"], [k |-> "empty"], [k |-> "ok", close |-> 52]}

NoCall == [fn |-> "none"]

CallValidate ==
    /\ call = NoCall
    /\ \E s \in Scripts, iv \in IVValues :
          LET once == validate_implied_volatility(s, iv)
          IN  call' = [fn |-> "validate_implied_volatility", script |-> s,
                       iv |-> iv, ret |-> once,
                       again |-> validate_implied_volatility(s, once)]
    /\ UNCHANGED runVars

CallEffectivePrice ==
    /\ call = NoCall
    /\ \E last \in QuoteValues, bid \in QuoteValues, ask \in QuoteValues,
          S \in PriceValues, K \in PriceValues, t \in OptionTypes :
          LET row == [lastPrice |-> last, bid |-> bid, ask |-> ask,
                      underlying_price |-> S, strike |-> K, option_type |-> t]
          IN  call' = [fn |-> "calculate_effective_price", row |-> row,
                       ret |-> calculate_effective_price(row)]
    /\ UNCHANGED runVars

CallRate ==
    /\ call = NoCall
    /\ \E d \in DayValues, h \in HistOutcomes :
          call' = [fn |-> "get_risk_free_rate_maturity", maturity_days |-> d,
                   hist |-> h, ret |-> get_risk_free_rate_maturity(d, h)]
    /\ UNCHANGED runVars

CallBlackScholes ==
    /\ call = NoCall
    /\ \E s \in Scripts, S \in PriceValues, K \in PriceValues,
          T \in {-1, 0, 1, 30},
          sigma \in {None, NaN, Num(-10), Num(0), Num(30), Num(500), Num(750)},
          q \in {0, 100}, t \in OptionTypes :
          call' = [fn |-> "black_scholes_with_dividends", script |-> s,
                   S |-> S, K |-> K, T |-> T, r |-> 450, sigma |-> sigma,
                   q |-> q, option_type |-> t,
                   ret |-> black_scholes_with_dividends(s, S, K, T, 450,
                                                        sigma, q, t)]
    /\ UNCHANGED runVars

InitRun ==
    /\ script \in Scripts
    /\ pc = "main"
    /\ now \in {0, 15}
    /\ option_data = [k |-> "unset"]
    /\ all_calls = << >>
    /\ all_puts = << >>
    /\ todo = << >>
    /\ rate_calls = << >>
    /\ report = << >>
    /\ error = "none"

Init == call = NoCall /\ InitRun

NextFn == CallValidate \/ CallEffectivePrice \/ CallRate \/ CallBlackScholes

SpecFn == Init /\ [][NextFn]_vars

---------------------------------------------------------------------------
(* One analysis run: main() -> get_option_data, show_expiration_summary,   *)
(* calculate_black_scholes_for_options                                     *)

\* stock_info['Close'].iloc[-1]
SPOT == Cents(3)

DividendYields == {0, 120}

\* expiration dates the provider may list, as days after the run's date
ExpirationDays == {0, 1, 45}

\* the quotes an option chain row may carry: a traded contract with an
\* absurd volatility reading, and a contract with no trade and no market
ChainQuotes ==
    { [strike |-> Cents(2), lastPrice |-> Num(Cents(2)), bid |-> Num(Cents(1)),
       ask |-> Num(Cents(3)), impliedVolatility |-> Num(750)],
      [strike |-> Cents(3), lastPrice |-> Num(0), bid |-> Num(0),
       ask |-> Num(0), impliedVolatility |-> NaN] }

\* the elements of a set of day numbers, ascending
RECURSIVE SortedDays(_)
SortedDays(S) ==
    IF S = {} THEN << >>
    ELSE LET m == CHOOSE x \in S : \A y \in S : x <= y
         IN  << m >> \o SortedDays(S \ {m})

\* the rows of a chain side, by ascending strike
RECURSIVE SortedRows(_)
SortedRows(S) ==
    IF S = {} THEN << >>
    ELSE LET m == CHOOSE x \in S : \A y \in S : x.strike <= y.strike
         IN  << m >> \o SortedRows(S \ {m})

\* stock.options: the listed dates, chronological
ExpirationLists ==
    {SortedDays(D) : D \in {X \in SUBSET ExpirationDays : Cardinality(X) <= MaxExp}}

\* options_chain.calls / .puts: at least one row, ordered by strike
ChainSides ==
    {SortedRows(Q) : Q \in {X \in SUBSET ChainQuotes :
                              Cardinality(X) >= 1 /\ Cardinality(X) <= MaxRows}}

\* a pandas DataFrame: pd.DataFrame() has no columns at all
EmptyFrame == [columns |-> FALSE, rows |-> << >>]

\* pd.concat(all_x, ignore_index=True) if all_x else pd.DataFrame()
concat(frames) ==
    IF frames = << >> THEN EmptyFrame
    ELSE [columns |-> TRUE, rows |-> frames]

\* (exp_date - today).days: timedelta.days is the floor of the difference
days_between(exp_day, today) == (exp_day * 24 - today) \div 24

SeqMap(Op(_), seq) == [i \in 1 .. Len(seq) |-> Op(seq[i])]

\* the rows get_option_data builds from one side of a chain
process_side(s, rows, exp_day, option_type) ==
    LET processed(row) ==
            LET base == [expirationDate |-> exp_day,
                         strike |-> row.strike,
                         lastPrice |-> row.lastPrice,
                         bid |-> row.bid,
                         ask |-> row.ask,
                         impliedVolatility |->
                             validate_implied_volatility(s, row.impliedVolatility),
                         underlying_price |-> SPOT,
                         option_type |-> option_type]
            IN  IF s = "META"
                THEN base @@ [effective_price |-> calculate_effective_price(base)]
                ELSE base
    IN  SeqMap(processed, rows)

\* stock.history(period="1d") raises: the call is outside every try block
SpotRaises ==
    /\ pc = "main"
    /\ pc' = "crashed"
    /\ error' = "history raised"
    /\ UNCHANGED << call, script, now, option_data, all_calls, all_puts, todo,
                    rate_calls, report >>

\* stock_info.empty: get_option_data returns None, main reports and ends
SpotEmpty ==
    /\ pc = "main"
    /\ option_data' = [k |-> "None", printed |-> "no spot price"]
    /\ pc' = "done"
    /\ UNCHANGED << call, script, now, all_calls, all_puts, todo, rate_calls,
                    report, error >>

\* spot price and dividend yield obtained (get_dividend_yield never raises)
SpotOk ==
    /\ pc = "main"
    /\ \E q \in DividendYields :
          option_data' = [k |-> "partial", stock_price |-> SPOT,
                          dividend_yield |-> q]
    /\ pc' = "options"
    /\ UNCHANGED << call, script, now, all_calls, all_puts, todo, rate_calls,
                    report, error >>

\* stock.options raises: caught by the outer except, returns None
OptionsRaises ==
    /\ pc = "options"
    /\ option_data' = [k |-> "None", printed |-> "no options"]
    /\ pc' = "done"
    /\ UNCHANGED << call, script, now, all_calls, all_puts, todo, rate_calls,
                    report, error >>

OptionsListed ==
    /\ pc = "options"
    /\ \E dates \in ExpirationLists :
          /\ option_data' = [option_data EXCEPT !.k = "listing"] @@
                            [expiration_dates |-> dates]
          /\ todo' = dates
    /\ pc' = "chains"
    /\ UNCHANGED << call, script, now, all_calls, all_puts, rate_calls,
                    report, error >>

\* stock.option_chain(exp_date) raises: caught, the date contributes no rows
ChainFails ==
    /\ pc = "chains"
    /\ todo # << >>
    /\ todo' = Tail(todo)
    /\ UNCHANGED << call, script, pc, now, option_data, all_calls, all_puts,
                    rate_calls, report, error >>

ChainFetched ==
    /\ pc = "chains"
    /\ todo # << >>
    /\ \E calls \in ChainSides, puts \in ChainSides :
          /\ all_calls' = all_calls \o process_side(script, calls, Head(todo), "call")
          /\ all_puts' = all_puts \o process_side(script, puts, Head(todo), "put")
    /\ todo' = Tail(todo)
    /\ UNCHANGED << call, script, pc, now, option_data, rate_calls, report,
                    error >>

\* the loop over expiration_dates is over: combine and return the dict
ReturnOptionData ==
    /\ pc = "chains"
    /\ todo = << >>
    /\ option_data' = [k |-> "dict",
                       stock_price |-> option_data.stock_price,
                       dividend_yield |-> option_data.dividend_yield,
                       expiration_dates |-> option_data.expiration_dates,
                       calls |-> concat(all_calls),
                       puts |-> concat(all_puts)]
    /\ todo' = option_data.expiration_dates
    /\ pc' = "summary"
    /\ UNCHANGED << call, script, now, all_calls, all_puts, rate_calls,
                    report, error >>

\* option_data['calls']['expirationDate'] on a frame without columns
SummaryKeyError ==
    /\ pc = "summary"
    /\ todo # << >>
    /\ ~option_data.calls.columns \/ ~option_data.puts.columns
    /\ pc' = "crashed"
    /\ error' = "KeyError in show_expiration_summary"
    /\ UNCHANGED << call, script, now, option_data, all_calls, all_puts, todo,
                    rate_calls, report >>

\* one line of the summary: the counts, and a rate looked up only to be
\* printed (get_risk_free_rate_maturity returns a rate whatever happens)
SummaryEntry ==
    /\ pc = "summary"
    /\ todo # << >>
    /\ option_data.calls.columns /\ option_data.puts.columns
    /\ LET days_to_exp == days_between(Head(todo), now)
       IN  rate_calls' = Append(rate_calls, [caller |-> "summary",
                                             exp_date |-> Head(todo),
                                             maturity_days |-> days_to_exp])
    /\ todo' = Tail(todo)
    /\ UNCHANGED << call, script, pc, now, option_data, all_calls, all_puts,
                    report, error >>

SummaryDone ==
    /\ pc = "summary"
    /\ todo = << >>
    /\ pc' = "evaluate"
    /\ UNCHANGED << call, script, now, option_data, all_calls, all_puts, todo,
                    rate_calls, report, error >>

\* META: option_data['calls']['effective_price'] > 0; UNH:
\* option_data['calls'].groupby('expirationDate'); on a frame without columns
EvaluateKeyError ==
    /\ pc = "evaluate"
    /\ ~option_data.calls.columns \/ ~option_data.puts.columns
    /\ pc' = "crashed"
    /\ error' = "KeyError in calculate_black_scholes_for_options"
    /\ UNCHANGED << call, script, now, option_data, all_calls, all_puts, todo,
                    rate_calls, report >>

\* the rows that are grouped: META keeps effective_price > 0, UNH keeps all
valid_rows(s, frame) ==
    IF s = "META"
    THEN LET positive(row) == row.effective_price > 0
         IN  SelectSeq(frame.rows, positive)
    ELSE frame.rows

\* groupby('expirationDate'): the distinct dates, ascending
group_keys(rows) == SortedDays({rows[i].expirationDate : i \in 1 .. Len(rows)})

EvaluateStart ==
    /\ pc = "evaluate"
    /\ option_data.calls.columns /\ option_data.puts.columns
    /\ LET tag_call(d) == [option_type |-> "call", exp_date |-> d]
           tag_put(d) == [option_type |-> "put", exp_date |-> d]
       IN  todo' =
             SeqMap(tag_call, group_keys(valid_rows(script, option_data.calls)))
             \o SeqMap(tag_put, group_keys(valid_rows(script, option_data.puts)))
    /\ pc' = "groups"
    /\ UNCHANGED << call, script, now, option_data, all_calls, all_puts,
                    rate_calls, report, error >>

\* UNH: option['lastPrice'] if option['lastPrice'] > 0
\*      else (option['bid'] + option['ask']) / 2
last_price(row) ==
    IF gt0(row.lastPrice) THEN row.lastPrice
    ELSE IF isna(row.bid) \/ isna(row.ask) THEN NaN
    ELSE Num((row.bid.v + row.ask.v) \div 2)

\* the market price a row is compared with
market_price(s, row) ==
    IF s = "META" THEN Num(row.effective_price) ELSE last_price(row)

moneyness(S, K, option_type) ==
    IF option_type = "call"
    THEN (IF S > K THEN "ITM" ELSE IF S < K THEN "OTM" ELSE "ATM")
    ELSE (IF S < K THEN "ITM" ELSE IF S > K THEN "OTM" ELSE "ATM")

\* (diff / price) * 100 if price > 0 else 0
percent_diff(bs_price, price) ==
    IF gt0(price)
    THEN [k |-> "computed", theoretical |-> bs_price, market |-> price]
    ELSE [k |-> "zero"]

\* the body of the loop over the rows of one group
price_row(s, row, today, r, q) ==
    LET T_days == days_between(row.expirationDate, today)
        S == row.underlying_price
        bs_price == black_scholes_with_dividends(
                        s, S, row.strike, T_days, r, row.impliedVolatility, q,
                        row.option_type)
        price == market_price(s, row)
    IN  IF T_days <= 0 THEN << >>
        ELSE << [option_type |-> row.option_type,
                 expirationDate |-> row.expirationDate,
                 T_days |-> T_days,
                 strike |-> row.strike,
                 price |-> price,
                 impliedVolatility |-> row.impliedVolatility,
                 r |-> r,
                 bs_price |-> bs_price,
                 percent_diff |-> percent_diff(bs_price, price),
                 moneyness |-> moneyness(S, row.strike, row.option_type)] >>

RECURSIVE price_rows(_, _, _, _, _)
price_rows(s, rows, today, r, q) ==
    IF rows = << >> THEN << >>
    ELSE price_row(s, Head(rows), today, r, q)
         \o price_rows(s, Tail(rows), today, r, q)

\* one expiration group: one rate lookup, then every row of the group
EvaluateGroup ==
    /\ pc = "groups"
    /\ todo # << >>
    /\ LET g == Head(todo)
           frame == IF g.option_type = "call" THEN option_data.calls
                    ELSE option_data.puts
           in_group(row) == row.expirationDate = g.exp_date
           group == SelectSeq(valid_rows(script, frame), in_group)
           T_days_common == days_between(g.exp_date, now)
       IN  \E hist \in RunHistOutcomes :
              LET r == get_risk_free_rate_maturity(T_days_common, hist).rate
              IN  /\ rate_calls' = Append(rate_calls,
                                           [caller |-> g.option_type,
                                            exp_date |-> g.exp_date,
                                            maturity_days |-> T_days_common])
                  /\ report' = report \o
                        price_rows(script, group, now, r,
                                   option_data.dividend_yield)
    /\ todo' = Tail(todo)
    /\ UNCHANGED << call, script, pc, now, option_data, all_calls, all_puts,
                    error >>

EvaluateDone ==
    /\ pc = "groups"
    /\ todo = << >>
    /\ pc' = "done"
    /\ UNCHANGED << call, script, now, option_data, all_calls, all_puts, todo,
                    rate_calls, report, error >>

Next ==
    \/ SpotRaises \/ SpotEmpty \/ SpotOk
    \/ OptionsRaises \/ OptionsListed
    \/ ChainFails \/ ChainFetched \/ ReturnOptionData
    \/ SummaryKeyError \/ SummaryEntry \/ SummaryDone
    \/ EvaluateKeyError \/ EvaluateStart \/ EvaluateGroup \/ EvaluateDone

Spec == Init /\ [][Next]_vars

---------------------------------------------------------------------------
(* Properties of the pure functions, checked under SpecFn                  *)

IsCall(fn) == call.fn = fn

\* C1: calculate_effective_price returns a strictly positive value for every
\* combination of lastPrice, bid and ask (absent, NaN, zero, negative or
\* positive), both option types, any spot and strike.
C1_EffectivePricePositive ==
    IsCall("calculate_effective_price") => call.ret > 0

\* C1 witness: no quote field is usable and the one-cent floor is returned
C1_Witness ==
    /\ IsCall("calculate_effective_price")
    /\ isna(call.row.lastPrice) /\ isna(call.row.bid) /\ isna(call.row.ask)
    /\ call.ret = MIN_PRICE

\* C2 (as stated): validate_implied_volatility returns a value in
\* (0, ceiling], ceiling being 0.60 (META) or 0.50 (UNH).
C2_WithinCeiling ==
    IsCall("validate_implied_volatility") =>
        /\ call.ret.k = "num"
        /\ call.ret.v > 0
        /\ call.ret.v <= iv_ceiling(call.script)

\* C2 (amended): validate_implied_volatility returns a number in (0, 5]:
\* readings between the ceiling and 5 pass through unchanged.
C2_WithinLimit ==
    IsCall("validate_implied_volatility") =>
        /\ call.ret.k = "num"
        /\ call.ret.v > 0
        /\ call.ret.v <= IV_LIMIT

\* C2 witness: a reading above the ceiling and within the limit is returned
C2_Witness ==
    /\ IsCall("validate_implied_volatility")
    /\ call.iv.k = "num"
    /\ call.iv.v > iv_ceiling(call.script) /\ call.iv.v <= IV_LIMIT
    /\ call.ret = call.iv

\* C3: validate_implied_volatility is idempotent: applying it to its own
\* result gives that result again, in both scripts.
C3_Idempotent ==
    IsCall("validate_implied_volatility") => call.again = call.ret

\* C3 witness: a reading above 5 is clamped, and the clamped value is kept
C3_Witness ==
    /\ IsCall("validate_implied_volatility")
    /\ call.iv.k = "num" /\ call.iv.v > IV_LIMIT
    /\ call.ret = Num(iv_ceiling(call.script))
    /\ call.again = call.ret

\* the tenor the six tiers of the specification bind to a day count
tier_tenor(d) ==
    IF d <= 90 THEN "^IRX" ELSE IF d <= 365 THEN "^FVX" ELSE "^TNX"

\* C4: for every day count >= 0 exactly one tier matches and the instrument
\* queried is ^IRX for [0,90], ^FVX for [91,365], ^TNX from 366 on, however
\* large the day count.
C4_OneTierMatches ==
    (IsCall("get_risk_free_rate_maturity") /\ call.maturity_days >= 0) =>
        /\ Cardinality({i \in 1 .. Len(treasury_tickers) :
                            tier_matches(i, call.maturity_days)}) = 1
        /\ call.ret.ticker = tier_tenor(call.maturity_days)

\* C5: when the yield-quote retrieval raises or returns an empty series,
\* get_risk_free_rate_maturity raises nothing and returns the static
\* fallback: 0.045 up to 30 days, 0.047 up to 90, 0.048 up to 180, 0.049 up
\* to 365, 0.050 beyond.
C5_FallbackOnFailure ==
    (IsCall("get_risk_free_rate_maturity") /\ call.hist.k \in {"raise", "empty"})
    =>
        /\ ~call.ret.raised
        /\ call.maturity_days <= 30 => call.ret.rate = 450
        /\ (call.maturity_days > 30 /\ call.maturity_days <= 90)
              => call.ret.rate = 470
        /\ (call.maturity_days > 90 /\ call.maturity_days <= 180)
              => call.ret.rate = 480
        /\ (call.maturity_days > 180 /\ call.maturity_days <= 365)
              => call.ret.rate = 490
        /\ call.maturity_days > 365 => call.ret.rate = 500

\* C5 witness: the retrieval raised at a tier boundary
C5_Witness ==
    /\ IsCall("get_risk_free_rate_maturity")
    /\ call.hist.k = "raise"
    /\ call.maturity_days = 90
    /\ call.ret.rate = 470

\* C6: for T <= 0 black_scholes_with_dividends returns the intrinsic value,
\* max(S - K, 0) for a call and max(K - S, 0) for a put, and does not
\* evaluate the closed form.
C6_IntrinsicAtExpiry ==
    (IsCall("black_scholes_with_dividends") /\ call.T <= 0) =>
        /\ call.ret.branch = "intrinsic"
        /\ call.option_type = "call" =>
              call.ret.price = (IF call.S > call.K THEN call.S - call.K ELSE 0)
        /\ call.option_type # "call" =>
              call.ret.price = (IF call.K > call.S THEN call.K - call.S ELSE 0)

\* C6 witness: an in-the-money call evaluated at T = 0
C6_Witness ==
    /\ IsCall("black_scholes_with_dividends")
    /\ call.T = 0 /\ call.option_type = "call" /\ call.S > call.K
    /\ call.ret.price = call.S - call.K

\* C7: calculate_effective_price returns lastPrice whenever lastPrice is
\* present and > 0 and either lastPrice <= ask or ask is absent, whatever
\* the bid.
C7_LastPriceRule ==
    (/\ IsCall("calculate_effective_price")
     /\ gt0(call.row.lastPrice)
     /\ (isna(call.row.ask) \/ le(call.row.lastPrice, call.row.ask)))
    => call.ret = call.row.lastPrice.v

\* the lastPrice rule as the specification states it
last_price_rule(row) ==
    gt0(row.lastPrice) /\ (isna(row.ask) \/ le(row.lastPrice, row.ask))

\* C8: when the lastPrice rule does not apply, the result is the first of:
\* (bid+ask)/2 when both are present, > 0 and ask >= bid; bid when present
\* and > 0; ask when present and > 0; max(intrinsic, 0.01).
C8_FallbackOrder ==
    (IsCall("calculate_effective_price") /\ ~last_price_rule(call.row)) =>
        LET row == call.row
            S == row.underlying_price
            K == row.strike
            value == IF row.option_type = "call"
                     THEN (IF S > K THEN S - K ELSE 0)
                     ELSE (IF K > S THEN K - S ELSE 0)
        IN  call.ret =
              IF gt0(row.bid) /\ gt0(row.ask) /\ ge(row.ask, row.bid)
              THEN (row.bid.v + row.ask.v) \div 2
              ELSE IF gt0(row.bid) THEN row.bid.v
              ELSE IF gt0(row.ask) THEN row.ask.v
              ELSE IF value > MIN_PRICE THEN value ELSE MIN_PRICE

\* C8 witness: lastPrice absent, bid 0.01, ask 0.02: the midpoint 0.015
C8_Witness ==
    /\ IsCall("calculate_effective_price")
    /\ isna(call.row.lastPrice)
    /\ call.row.bid = Num(Cents(1)) /\ call.row.ask = Num(Cents(2))
    /\ call.ret = 3

---------------------------------------------------------------------------
(* Properties of a run, checked under Spec                                 *)

\* C9: an analysis run always completes without an uncaught error, whatever
\* the external collaborator does (spot-price query failing, no expiration
\* dates, every option-chain retrieval failing).
C9_RunNeverCrashes == error = "none" /\ pc # "crashed"

\* C10: a reported row whose market price is 0 has an undefined
\* percentDifference: it is neither computed nor given the value 0.
C10_ZeroPriceUndefined ==
    \A i \in 1 .. Len(report) :
        report[i].price = Num(0) => report[i].percent_diff.k = "undefined"

\* the lookups made by calculate_black_scholes_for_options
evaluator_lookups ==
    {i \in 1 .. Len(rate_calls) : rate_calls[i].caller \in {"call", "put"}}

\* the calendar date of the run: the day datetime.now() falls in
evaluation_date == now \div 24

\* C12: the daysToMaturity of every expiration group, as used for the rate
\* lookup and for T, is the number of calendar days from the evaluation date
\* to the expiration date, whatever the time of day of the run (tomorrow's
\* expiration is 1 day away at any hour).
C12_CalendarDays ==
    /\ \A i \in evaluator_lookups :
          rate_calls[i].maturity_days = rate_calls[i].exp_date - evaluation_date
    /\ \A j \in 1 .. Len(report) :
          report[j].T_days = report[j].expirationDate - evaluation_date

\* C13: within one run all contracts of one expiration date, calls and puts,
\* are priced with the same rate, obtained by a single lookup for that
\* expiration, whatever the yield-quote retrievals do.
C13_OneRatePerExpiration ==
    /\ \A i, j \in 1 .. Len(report) :
          report[i].expirationDate = report[j].expirationDate
             => report[i].r = report[j].r
    /\ \A i, j \in evaluator_lookups :
          rate_calls[i].exp_date = rate_calls[j].exp_date => i = j

\* C14: the chain evaluator never calls get_risk_free_rate_maturity with a
\* negative day count, and makes no lookup at all for a group whose members
\* all have yearsToMaturity <= 0.
C14_NoLookupForExpired ==
    \A i \in evaluator_lookups :
        /\ rate_calls[i].maturity_days >= 0
        /\ days_between(rate_calls[i].exp_date, now) > 0

\* C15: every row for which a comparison is emitted has a strictly positive
\* effective market price, in the META and in the UNH script.
C15_ReportedPricePositive ==
    \A i \in 1 .. Len(report) : gt0(report[i].price)

---------------------------------------------------------------------------
(* Further properties of the pure functions, checked under SpecFn          *)

\* C16: for T > 0 the volatility black_scholes_with_dividends divides by is
\* the sanitized one, whatever sigma is passed (missing, NaN, zero, negative,
\* above 5): the default, the ceiling or sigma itself, always in (0, 5].
C16_SanitizedSigma ==
    (IsCall("black_scholes_with_dividends") /\ call.T > 0) =>
        /\ call.ret.branch = "formula"
        /\ call.ret.sigma > 0
        /\ call.ret.sigma <= IV_LIMIT
        /\ call.ret.sigma =
              IF call.sigma.k # "num" \/ call.sigma.v <= 0
              THEN iv_default(call.script)
              ELSE IF call.sigma.v > IV_LIMIT THEN iv_ceiling(call.script)
              ELSE call.sigma.v

\* C16 witness: a zero volatility reaches the formula as the default
C16_Witness ==
    /\ IsCall("black_scholes_with_dividends")
    /\ call.T > 0
    /\ call.sigma = Num(0)
    /\ call.ret.sigma = iv_default(call.script)

\* C17: when ask is present and > 0 and the quote is not crossed (bid absent,
\* <= 0 or <= ask), calculate_effective_price returns at most ask, for every
\* lastPrice.
C17_AtMostAsk ==
    (/\ IsCall("calculate_effective_price")
     /\ gt0(call.row.ask)
     /\ (isna(call.row.bid) \/ ~gt0(call.row.bid)
         \/ le(call.row.bid, call.row.ask)))
    => call.ret <= call.row.ask.v

\* C17 witness: a lastPrice above the ask is passed over for the ask
C17_Witness ==
    /\ IsCall("calculate_effective_price")
    /\ gt0(call.row.ask) /\ gt0(call.row.lastPrice)
    /\ call.row.lastPrice.v > call.row.ask.v
    /\ isna(call.row.bid)
    /\ call.ret = call.row.ask.v

=============================================================================
